---------------------------- MODULE Spec2Model ----------------------------
(***************************************************************************)
(* Model of the SDK generation action:                                     *)
(*   - checkForChanges (main.go): the version reconciliation of one        *)
(*     language from the three change signals;                             *)
(*   - ReleasesInfo.String / UpdateReleasesFile / ParseReleases            *)
(*     (pkg/releases/releases.go): the RELEASES.md ledger;                 *)
(*   - runAction (main.go): the pipeline that persists versions and        *)
(*     management metadata.                                                *)
(*                                                                         *)
(* A Go string is a sequence of tokens.  A token is one character          *)
(* ("1", ".", "/", " ", "\n", ...) or a run of letters that the code only  *)
(* ever writes and matches as a whole ("Changes", "https://", ...).        *)
(***************************************************************************)
EXTENDS Integers, Sequences, FiniteSets, TLC

VARIABLES
    \* ---- checkForChanges and its caller's persisted state
    mgmtConfig,     \* cfg.Config["management"] as persisted
    sdkVersion,     \* cfg.Config[lang]["version"] as persisted
    call,           \* the last checkForChanges call: its arguments and return
    runs,           \* number of persisted generation cycles so far
    \* ---- the release ledger
    githubRepository, \* the environment's GITHUB_REPOSITORY
    releasesFile,   \* RELEASES.md: whether it exists, and its text
    found,          \* RELEASES.md as it was found at the start
    written,        \* the records UpdateReleasesFile wrote, oldest first
    failed,         \* whether a write of UpdateReleasesFile failed
    lastInfo,       \* what GetLastReleaseInfo returned since the last write
    \* ---- one run of runAction
    pc,             \* where runAction stands
    inputs,         \* speakeasyVersion, docVersion, docChecksum of the run
    genConfigs,     \* cfg.Config of each language, in memory
    configFile,     \* cfg.Config of each language, as written to ConfigPath
    atStart,        \* configFile as the run found it
    iter,           \* the loop's remaining languages, and lang, sdkVersion,
                    \* newVersion of the iteration under way
    langGenerated,  \* the languages l with langGenerated[l] = true
    release,        \* releaseVersion, usingGoVersion, regenerated
    ret             \* what runAction returned

decideVars == <<mgmtConfig, sdkVersion, call, runs>>
ledgerVars == <<githubRepository, releasesFile, found, written, failed, lastInfo>>
runVars == <<pc, inputs, genConfigs, configFile, atStart, iter, langGenerated,
             release, ret>>
vars == <<decideVars, ledgerVars, runVars>>

-----------------------------------------------------------------------------
(* Bounds *)

\* How many successful generation cycles a behaviour chains.
MaxRuns == 2

\* How many records a behaviour appends to the ledger.
MaxAppends == 2

\* A write to the ledger fails after at most this many records were written.
MaxTornAfter == 0

-----------------------------------------------------------------------------
(* Text helpers *)

Digit == {"0", "1", "2", "3", "4", "5", "6", "7", "8", "9"}
Letter == {"x", "b", "v", "a"}

DigitVal(c) ==
    CASE c = "0" -> 0 [] c = "1" -> 1 [] c = "2" -> 2 [] c = "3" -> 3
      [] c = "4" -> 4 [] c = "5" -> 5 [] c = "6" -> 6 [] c = "7" -> 7
      [] c = "8" -> 8 [] c = "9" -> 9

DigitChar(n) ==
    CASE n = 0 -> "0" [] n = 1 -> "1" [] n = 2 -> "2" [] n = 3 -> "3"
      [] n = 4 -> "4" [] n = 5 -> "5" [] n = 6 -> "6" [] n = 7 -> "7"
      [] n = 8 -> "8" [] n = 9 -> "9"

\* strconv.ParseInt of a run of digits
RECURSIVE Atoi(_)
Atoi(s) ==
    IF s = <<>> THEN 0
    ELSE 10 * Atoi(SubSeq(s, 1, Len(s) - 1)) + DigitVal(s[Len(s)])

\* fmt's %d of a non-negative int
RECURSIVE Itoa(_)
Itoa(n) ==
    IF n < 10 THEN <<DigitChar(n)>>
    ELSE Itoa(n \div 10) \o <<DigitChar(n % 10)>>

\* strings.Split(s, sep) for a one-token separator
RECURSIVE SplitOn(_, _)
SplitOn(s, sep) ==
    IF \A i \in 1..Len(s) : s[i] # sep THEN <<s>>
    ELSE LET i == CHOOSE j \in 1..Len(s) :
                      s[j] = sep /\ \A k \in 1..(j - 1) : s[k] # sep
         IN  <<SubSeq(s, 1, i - 1)>> \o SplitOn(SubSeq(s, i + 1, Len(s)), sep)

AllIn(s, S) == \A i \in 1..Len(s) : s[i] \in S

-----------------------------------------------------------------------------
(* github.com/hashicorp/go-version, as main.go uses it *)

\* Length of the longest prefix of s made of digits and dots.
RECURSIVE NumericPrefixLen(_)
NumericPrefixLen(s) ==
    IF s = <<>> \/ s[1] \notin (Digit \cup {"."}) THEN 0
    ELSE 1 + NumericPrefixLen(Tail(s))

\* The pre-release part of the version pattern: dot-separated non-empty runs
\* of letters, digits and dashes, the first run starting with a letter or a
\* dash.
PrereleaseOK(s) ==
    \/ s = <<>>
    \/ /\ s[1] \in (Letter \cup {"-"})
       /\ \A p \in {SplitOn(s, ".")} :
             \A i \in 1..Len(p) :
                p[i] # <<>> /\ AllIn(p[i], Letter \cup Digit \cup {"-"})

Pad3(segs) ==
    IF Len(segs) >= 3 THEN segs
    ELSE IF Len(segs) = 2 THEN segs \o <<0>>
    ELSE segs \o <<0, 0>>

\* version.NewVersion(v): [err |-> TRUE] or the parsed version, whose
\* Segments() are padded with zeros to at least three.
NewVersion(v) ==
    LET s    == IF v # <<>> /\ v[1] = "v" THEN Tail(v) ELSE v
        n    == NumericPrefixLen(s)
        nums == SplitOn(SubSeq(s, 1, n), ".")
        rest == SubSeq(s, n + 1, Len(s))
    IN  IF /\ n > 0
           /\ \A i \in 1..Len(nums) : nums[i] # <<>>
           /\ PrereleaseOK(rest)
        THEN [err |-> FALSE,
              segments |-> Pad3([i \in 1..Len(nums) |-> Atoi(nums[i])])]
        ELSE [err |-> TRUE, segments |-> <<>>]

\* fmt.Sprintf("%d.%d.%d", major, minor, patch)
Sprintf3(major, minor, patch) ==
    Itoa(major) \o <<".">> \o Itoa(minor) \o <<".">> \o Itoa(patch)

-----------------------------------------------------------------------------
(* checkForChanges *)

EmptyString == <<>>

\* Go's nil error, and the errors checkForChanges returns
nil == "nil"
ErrConfigSpeakeasy == "error parsing config speakeasy version"
ErrSpeakeasy == "error parsing speakeasy version"
ErrConfigOpenAPI == "error parsing config openapi version"
ErrSdk == "error parsing sdk version"

MgmtKeys == {"speakeasy-version", "openapi-version", "openapi-checksum"}

NoBump == [bumpMajor |-> FALSE, bumpMinor |-> FALSE, bumpPatch |-> FALSE]

\* The if / else-if chain over Segments()[0..2] that both version signals use.
SegmentBump(current, previous) ==
    IF current[1] > previous[1] THEN [NoBump EXCEPT !.bumpMajor = TRUE]
    ELSE IF current[2] > previous[2] THEN [NoBump EXCEPT !.bumpMinor = TRUE]
    ELSE IF current[3] > previous[3] THEN [NoBump EXCEPT !.bumpPatch = TRUE]
    ELSE NoBump

\* The condition of the outer if: some management value differs.
MetadataChangedTypo(speakeasyVersion, docVersion, docChecksum, mgmt) ==
    \/ speakeasyVersion # mgmt["speakeasy-version"]
    \/ docVersion # mgmt["openapi-version"]
    \/ docChecksum # mgmt["openapi-version"]

MetadataChanged(speakeasyVersion, docVersion, docChecksum, mgmt) ==
    \/ speakeasyVersion # mgmt["speakeasy-version"]
    \/ docVersion # mgmt["openapi-version"]
    \/ docChecksum # mgmt["openapi-checksum"]

\* The speakeasy-version block: an error, or the bumps it sets.
ToolSignalMajorOnFirstRun(speakeasyVersion, mgmt) ==
    IF mgmt["speakeasy-version"] = EmptyString
    THEN [err |-> nil, bump |-> [NoBump EXCEPT !.bumpMajor = TRUE]]
    ELSE LET previousSpeakeasyV == NewVersion(mgmt["speakeasy-version"])
             currentSpeakeasyV == NewVersion(speakeasyVersion)
         IN  IF previousSpeakeasyV.err
             THEN [err |-> ErrConfigSpeakeasy, bump |-> NoBump]
             ELSE IF currentSpeakeasyV.err
             THEN [err |-> ErrSpeakeasy, bump |-> NoBump]
             ELSE [err |-> nil,
                   bump |-> SegmentBump(currentSpeakeasyV.segments,
                                        previousSpeakeasyV.segments)]

ToolSignal(speakeasyVersion, mgmt) ==
    IF mgmt["speakeasy-version"] = EmptyString
    THEN [err |-> nil, bump |-> [NoBump EXCEPT !.bumpMinor = TRUE]]
    ELSE LET previousSpeakeasyV == NewVersion(mgmt["speakeasy-version"])
             currentSpeakeasyV == NewVersion(speakeasyVersion)
         IN  IF previousSpeakeasyV.err
             THEN [err |-> ErrConfigSpeakeasy, bump |-> NoBump]
             ELSE IF currentSpeakeasyV.err
             THEN [err |-> ErrSpeakeasy, bump |-> NoBump]
             ELSE [err |-> nil,
                   bump |-> SegmentBump(currentSpeakeasyV.segments,
                                        previousSpeakeasyV.segments)]

\* The openapi-version block.  A current doc version that is no semver skips
\* the comparison, and with it the parse of the previous doc version.
DocSignal(docVersion, mgmt) ==
    IF mgmt["openapi-version"] = EmptyString
    THEN [err |-> nil, bump |-> [NoBump EXCEPT !.bumpMinor = TRUE]]
    ELSE LET currentDocV == NewVersion(docVersion)
             previousDocV == NewVersion(mgmt["openapi-version"])
         IN  IF currentDocV.err
             THEN [err |-> nil, bump |-> NoBump]
             ELSE IF previousDocV.err
             THEN [err |-> ErrConfigOpenAPI, bump |-> NoBump]
             ELSE [err |-> nil,
                   bump |-> SegmentBump(currentDocV.segments,
                                        previousDocV.segments)]

\* The openapi-checksum block.
ChecksumSignal(docChecksum, mgmt) ==
    IF mgmt["openapi-checksum"] = EmptyString
    THEN [NoBump EXCEPT !.bumpMinor = TRUE]
    ELSE IF docChecksum # mgmt["openapi-checksum"]
    THEN [NoBump EXCEPT !.bumpPatch = TRUE]
    ELSE NoBump

\* bumpMajor, bumpMinor, bumpPatch after the three blocks.
Aggregate(a, b, c) ==
    [bumpMajor |-> a.bumpMajor \/ b.bumpMajor \/ c.bumpMajor,
     bumpMinor |-> a.bumpMinor \/ b.bumpMinor \/ c.bumpMinor,
     bumpPatch |-> a.bumpPatch \/ b.bumpPatch \/ c.bumpPatch]

\* major, minor, patch before the bump: zero values, or the sdk version's.
SdkStartSkipParse(sdk) ==
    LET sdkV == NewVersion(sdk)
    IN  IF sdk # EmptyString /\ ~sdkV.err
        THEN [err |-> nil, v |-> SubSeq(sdkV.segments, 1, 3)]
        ELSE [err |-> nil, v |-> <<0, 0, 0>>]

SdkStart(sdk) ==
    IF sdk # EmptyString
    THEN LET sdkV == NewVersion(sdk)
         IN  IF sdkV.err THEN [err |-> ErrSdk, v |-> <<0, 0, 0>>]
             ELSE [err |-> nil, v |-> SubSeq(sdkV.segments, 1, 3)]
    ELSE [err |-> nil, v |-> <<0, 0, 0>>]

\* The final if / else-if chain over bumpMajor, bumpMinor, bumpPatch.
ResolveMinorFirst(v, bump) ==
    IF bump.bumpMinor THEN <<v[1], v[2] + 1, 0>>
    ELSE IF bump.bumpMajor THEN <<v[1] + 1, 0, 0>>
    ELSE IF bump.bumpPatch THEN <<v[1], v[2], v[3] + 1>>
    ELSE v

ResolveResetMinor(v, bump) ==
    IF bump.bumpMajor THEN <<v[1] + 1, 0, 0>>
    ELSE IF bump.bumpMinor THEN <<v[1], 1, 0>>
    ELSE IF bump.bumpPatch THEN <<v[1], v[2], v[3] + 1>>
    ELSE v

Resolve(v, bump) ==
    IF bump.bumpMajor THEN <<v[1] + 1, 0, 0>>
    ELSE IF bump.bumpMinor THEN <<v[1], v[2] + 1, 0>>
    ELSE IF bump.bumpPatch THEN <<v[1], v[2], v[3] + 1>>
    ELSE v

Return(newVersion, err) == [newVersion |-> newVersion, err |-> err]

checkForChanges(speakeasyVersion, docVersion, docChecksum, sdk, mgmt) ==
    IF MetadataChanged(speakeasyVersion, docVersion, docChecksum, mgmt)
    THEN LET tool  == ToolSignal(speakeasyVersion, mgmt)
             doc   == DocSignal(docVersion, mgmt)
             sum   == ChecksumSignal(docChecksum, mgmt)
             start == SdkStart(sdk)
             new   == Resolve(start.v, Aggregate(tool.bump, doc.bump, sum))
         IN  IF tool.err # nil THEN Return(EmptyString, tool.err)
             ELSE IF doc.err # nil THEN Return(EmptyString, doc.err)
             ELSE IF start.err # nil THEN Return(EmptyString, start.err)
             ELSE Return(Sprintf3(new[1], new[2], new[3]), nil)
    ELSE Return(EmptyString, nil)

-----------------------------------------------------------------------------
(* Regular expressions of pkg/releases, on token sequences.                 *)
(* A pattern is a sequence of items, matched as Go's regexp does: the       *)
(* leftmost match, and among those the one a backtracking search that       *)
(* prefers fewer tokens for a lazy item and more for a greedy one finds     *)
(* first.                                                                   *)

SP == " "
NL == "\n"

\* A run of literal tokens
Lits(ts) == <<[k |-> "lits", ts |-> ts, cls |-> "", g |-> 0, min |-> 0]>>
\* .*? and .* ; cls "dotall" also matches a newline (the (?s) flag)
Lazy(cls) == [k |-> "lazy", ts |-> <<>>, cls |-> cls, g |-> 0, min |-> 0]
Greedy(cls) == [k |-> "greedy", ts |-> <<>>, cls |-> cls, g |-> 0, min |-> 0]
\* \d+
Digits == [k |-> "greedy", ts |-> <<>>, cls |-> "digit", g |-> 0, min |-> 1]
\* x?
Opt(t) == [k |-> "opt", ts |-> <<t>>, cls |-> "", g |-> 0, min |-> 0]
Open(g) == [k |-> "open", ts |-> <<>>, cls |-> "", g |-> g, min |-> 0]
Close(g) == [k |-> "close", ts |-> <<>>, cls |-> "", g |-> g, min |-> 0]

Group(g, items) == <<Open(g)>> \o items \o <<Close(g)>>

\* \d+\.\d+\.\d+
SemverPattern ==
    <<Digits>> \o Lits(<<".">>) \o <<Digits>> \o Lits(<<".">>) \o <<Digits>>

InClass(tok, cls) ==
    CASE cls = "dotall" -> TRUE
      [] cls = "dot" -> tok # NL
      [] cls = "digit" -> tok \in Digit

SetMin(S) == CHOOSE x \in S : \A y \in S : x <= y
SetMax(S) == CHOOSE x \in S : \A y \in S : x >= y

\* Number of tokens from pos on that are in cls.
RunLen(text, pos, cls) ==
    LET out == {j \in pos..Len(text) : ~InClass(text[j], cls)}
    IN  IF out = {} THEN Len(text) - pos + 1 ELSE SetMin(out) - pos

\* Whether the tokens ts stand in text at pos.
LitsAt(text, pos, ts) ==
    /\ pos + Len(ts) - 1 <= Len(text)
    /\ \A j \in 1..Len(ts) : text[pos + j - 1] = ts[j]

NoMatch == [ok |-> FALSE, end |-> 0, cap |-> <<>>]
NoCaptures == [g \in 1..4 |-> <<0, 0>>]

\* Match items i.. of pat against text from pos on.  A lazy item takes the
\* fewest tokens of its class with which the rest matches, a greedy one the
\* most: the first success of a backtracking search.
RECURSIVE MatchAt(_, _, _, _, _)
MatchAt(pat, text, i, pos, cap) ==
    IF i > Len(pat) THEN [ok |-> TRUE, end |-> pos, cap |-> cap]
    ELSE LET it == pat[i]
         IN  CASE it.k = "lits" ->
                    IF LitsAt(text, pos, it.ts)
                    THEN MatchAt(pat, text, i + 1, pos + Len(it.ts), cap)
                    ELSE NoMatch
               [] it.k = "open" ->
                    MatchAt(pat, text, i + 1, pos,
                            [cap EXCEPT ![it.g] = <<pos, pos>>])
               [] it.k = "close" ->
                    MatchAt(pat, text, i + 1, pos,
                            [cap EXCEPT ![it.g] = <<cap[it.g][1], pos>>])
               [] it.k = "opt" ->
                    LET taken == IF LitsAt(text, pos, it.ts)
                                 THEN MatchAt(pat, text, i + 1, pos + 1, cap)
                                 ELSE NoMatch
                    IN  IF taken.ok THEN taken
                        ELSE MatchAt(pat, text, i + 1, pos, cap)
               [] it.k \in {"lazy", "greedy"} ->
                    LET tries == {[n |-> n,
                                   r |-> MatchAt(pat, text, i + 1, pos + n, cap)] :
                                     n \in it.min..RunLen(text, pos, it.cls)}
                        oks == {t \in tries : t.r.ok}
                    IN  IF oks = {} THEN NoMatch
                        ELSE IF it.k = "lazy"
                        THEN (CHOOSE t \in oks : \A u \in oks : t.n <= u.n).r
                        ELSE (CHOOSE t \in oks : \A u \in oks : t.n >= u.n).r

\* The leftmost match of pat in text.
FindFrom(pat, text) ==
    LET tries == {[n |-> start,
                   r |-> MatchAt(pat, text, 1, start, NoCaptures)] :
                     start \in 1..(Len(text) + 1)}
        oks == {t \in tries : t.r.ok}
    IN  IF oks = {} THEN NoMatch
        ELSE LET first == CHOOSE t \in oks : \A u \in oks : t.n <= u.n
             IN  [ok |-> TRUE, end |-> first.r.end,
                  cap |-> <<<<first.n, first.r.end>>>> \o first.r.cap]

\* regexp.FindStringSubmatch: nil (the empty sequence) without a match, else
\* the whole match followed by the four groups.
FindStringSubmatch(pat, text) ==
    LET r == FindFrom(pat, text)
    IN  IF ~r.ok THEN <<>>
        ELSE [j \in 1..5 |-> SubSeq(text, r.cap[j][1], r.cap[j][2] - 1)]

releaseInfoRegex ==
    Lits(<<"##", SP>>) \o Group(1, <<Lazy("dotall")>>)
    \o Lits(<<NL, "###", SP, "Changes", NL, "Based", SP, "on:", NL,
              "-", SP, "OpenAPI", SP, "Doc", SP>>)
    \o Group(2, <<Lazy("dotall")>>) \o Lits(<<SP>>)
    \o Group(3, <<Lazy("dotall")>>)
    \o Lits(<<NL, "-", SP, "Speakeasy", SP, "CLI", SP>>)
    \o Group(4, <<Lazy("dotall")>>) \o Lits(<<SP>>) \o <<Lazy("dotall")>>

npmReleaseRegex ==
    Lits(<<"-", SP, "[", "NPM", SP, "v">>) \o Group(1, SemverPattern)
    \o Lits(<<"]", SP>>)
    \o Group(2, Lits(<<"https://", "www.npmjs.com", "/", "package", "/">>)
                \o Group(3, <<Lazy("dot")>>)
                \o Lits(<<"/", "v", "/">>) \o SemverPattern)
    \o Lits(<<SP, "-", SP>>) \o Group(4, <<Greedy("dot")>>)

pypiReleaseRegex ==
    Lits(<<"-", SP, "[", "PyPI", SP, "v">>) \o Group(1, SemverPattern)
    \o Lits(<<"]", SP>>)
    \o Group(2, Lits(<<"https://", "pypi.org", "/", "project", "/">>)
                \o Group(3, <<Lazy("dot")>>)
                \o Lits(<<"/">>) \o SemverPattern)
    \o Lits(<<SP, "-", SP>>) \o Group(4, <<Greedy("dot")>>)

goReleaseRegex ==
    Lits(<<"-", SP, "[", "Go", SP, "v">>) \o Group(1, SemverPattern)
    \o Lits(<<"]", SP>>)
    \o Group(2, Lits(<<"https://">>)
                \o Group(3, Lits(<<"github.com", "/">>) \o <<Lazy("dot")>>)
                \o Lits(<<"/", "releases", "/", "tag", "/">>)
                \o <<Lazy("dot"), Opt("/")>> \o Lits(<<"v">>)
                \o SemverPattern)
    \o Lits(<<SP, "-", SP>>) \o Group(4, <<Greedy("dot")>>)

composerReleaseRegex ==
    Lits(<<"-", SP, "[", "Composer", SP, "v">>) \o Group(1, SemverPattern)
    \o Lits(<<"]", SP>>)
    \o Group(2, Lits(<<"https://", "packagist.org", "/", "packages", "/">>)
                \o Group(3, <<Lazy("dot")>>)
                \o Lits(<<"#", "v">>) \o SemverPattern)
    \o Lits(<<SP, "-", SP>>) \o Group(4, <<Greedy("dot")>>)

-----------------------------------------------------------------------------
(* ReleasesInfo.String *)

\* strings.Join(lines, "\n")
RECURSIVE JoinNL(_)
JoinNL(lines) ==
    IF lines = <<>> THEN <<>>
    ELSE IF Len(lines) = 1 THEN lines[1]
    ELSE lines[1] \o <<NL>> \o JoinNL(Tail(lines))

\* pkgID of the switch; empty for a language it has no case for
PkgID(lang) ==
    CASE lang = "go" -> <<"Go">>
      [] lang = "typescript" -> <<"NPM">>
      [] lang = "python" -> <<"PyPI">>
      [] lang = "php" -> <<"Composer">>
      [] OTHER -> <<>>

GoTag(info) ==
    IF info.Path # <<".">> THEN info.Path \o <<"/">> \o <<"v">> \o info.Version
    ELSE <<"v">> \o info.Version

\* pkgURL of the switch; repoPath is os.Getenv("GITHUB_REPOSITORY")
PkgURL(lang, info, repoPath) ==
    CASE lang = "go" ->
            <<"https://", "github.com", "/">> \o repoPath
            \o <<"/", "releases", "/", "tag", "/">> \o GoTag(info)
      [] lang = "typescript" ->
            <<"https://", "www.npmjs.com", "/", "package", "/">>
            \o info.PackageName \o <<"/", "v", "/">> \o info.Version
      [] lang = "python" ->
            <<"https://", "pypi.org", "/", "project", "/">>
            \o info.PackageName \o <<"/">> \o info.Version
      [] lang = "php" ->
            <<"https://", "packagist.org", "/", "packages", "/">>
            \o info.PackageName \o <<"#", "v">> \o info.Version
      [] OTHER -> <<>>

\* "- [%s v%s] %s - %s"
ReleaseLine(lang, info, repoPath) ==
    <<"-", SP, "[">> \o PkgID(lang) \o <<SP, "v">> \o info.Version
    \o <<"]", SP>> \o PkgURL(lang, info, repoPath) \o <<SP, "-", SP>>
    \o info.Path

\* releasesOutput after the loop over r.Languages taken in the given order
RECURSIVE ReleasesOutput(_, _, _)
ReleasesOutput(r, order, repoPath) ==
    IF order = <<>> THEN <<>>
    ELSE LET lang == order[1]
             rest == ReleasesOutput(r, Tail(order), repoPath)
         IN  IF PkgID(lang) # <<>>
             THEN <<ReleaseLine(lang, r.Languages[lang], repoPath)>> \o rest
             ELSE rest

\* r.String(), with the map iteration order `order` and the environment's
\* GITHUB_REPOSITORY
String(r, order, repoPath) ==
    LET lines == ReleasesOutput(r, order, repoPath)
        releasesOutput ==
            IF Len(lines) > 0
            THEN <<<<NL, "###", SP, "Releases">>>> \o lines
            ELSE lines
    IN  <<NL, NL>> \o <<"##", SP>> \o r.ReleaseTitle
        \o <<NL, "###", SP, "Changes", NL, "Based", SP, "on:", NL,
             "-", SP, "OpenAPI", SP, "Doc", SP>>
        \o r.DocVersion \o <<SP>> \o r.DocLocation
        \o <<NL, "-", SP, "Speakeasy", SP, "CLI", SP>> \o r.SpeakeasyVersion
        \o <<SP, "https://", "github.com", "/", "speakeasy-api", "/",
             "speakeasy">>
        \o JoinNL(releasesOutput)

-----------------------------------------------------------------------------
(* ParseReleases *)

\* Where the last element of strings.Split(data, "\n\n") starts: after the
\* last separator found from position `from` on, scanning left to right
\* without overlap.
RECURSIVE LastStart(_, _)
LastStart(seps, from) ==
    LET next == {j \in seps : j >= from}
    IN  IF next = {} THEN from ELSE LastStart(seps, SetMin(next) + 2)

\* Variant: the whole text instead of its last block
WholeData(data) == data

\* releases[len(releases)-1]
LastRelease(data) ==
    LET seps == {j \in 1..(Len(data) - 1) : data[j] = NL /\ data[j + 1] = NL}
    IN  SubSeq(data, LastStart(seps, 1), Len(data))

\* strings.TrimPrefix(path, "./")
TrimDotSlash(path) ==
    IF Len(path) >= 2 /\ path[1] = "." /\ path[2] = "/"
    THEN SubSeq(path, 3, Len(path))
    ELSE path

ErrParse == "error parsing last release info"
NilInfo == [isNil |-> TRUE]

SupportedLangs == {"typescript", "python", "go", "php"}

LangRegex(lang) ==
    CASE lang = "typescript" -> npmReleaseRegex
      [] lang = "python" -> pypiReleaseRegex
      [] lang = "go" -> goReleaseRegex
      [] lang = "php" -> composerReleaseRegex

\* Variant: the Go path joined without strings.TrimPrefix
LangEntryKeepDotSlash(lang, m) ==
    [Version |-> m[2], URL |-> m[3], Path |-> m[5],
     PackageName |->
        IF lang = "go" /\ m[5] # <<".">>
        THEN m[4] \o <<"/">> \o m[5]
        ELSE m[4]]

\* The LanguageReleaseInfo built from a language's submatches
LangEntry(lang, m) ==
    [Version |-> m[2], URL |-> m[3], Path |-> m[5],
     PackageName |->
        IF lang = "go" /\ m[5] # <<".">>
        THEN m[4] \o <<"/">> \o TrimDotSlash(m[5])
        ELSE m[4]]

ParseReleases(data) ==
    LET lastRelease == LastRelease(data)
        matches == FindStringSubmatch(releaseInfoRegex, lastRelease)
        langMatches == [l \in SupportedLangs |->
                          FindStringSubmatch(LangRegex(l), lastRelease)]
        langs == {l \in SupportedLangs : Len(langMatches[l]) = 5}
    IN  IF Len(matches) # 5 THEN [info |-> NilInfo, err |-> ErrParse]
        ELSE [info |->
                [isNil |-> FALSE,
                 ReleaseTitle |-> matches[2],
                 DocVersion |-> matches[3],
                 DocLocation |-> matches[4],
                 SpeakeasyVersion |-> matches[5],
                 Languages |->
                    [l \in langs |-> LangEntry(l, langMatches[l])]],
              err |-> nil]

-----------------------------------------------------------------------------
(* Inputs of the reconciliation *)

V3(a, b, c) == Sprintf3(a, b, c)

SpeakeasyVersions ==
    {EmptyString, <<"x">>, V3(1, 2, 3), V3(1, 2, 4), V3(1, 3, 0), V3(2, 0, 0)}

DocVersions ==
    {EmptyString, <<"x">>, V3(1, 0, 0), V3(1, 0, 1), V3(1, 1, 0), V3(2, 0, 0)}

DocChecksums == {EmptyString, <<"a">>, <<"b">>}

SdkVersions ==
    {EmptyString, <<"x">>, V3(0, 0, 0), V3(1, 2, 0), <<"1", ".", "2">>,
     <<"v", "1", ".", "2", ".", "3", "-", "b">>, <<"1", ".", "2", ".", "3", ".", "4">>}

Mgmt(tool, doc, sum) ==
    [k \in MgmtKeys |->
        CASE k = "speakeasy-version" -> tool
          [] k = "openapi-version" -> doc
          [] k = "openapi-checksum" -> sum]

NoCall == [called |-> FALSE]

-----------------------------------------------------------------------------
(* Release records *)

Lang(packageName, path, version) ==
    [PackageName |-> packageName, Path |-> path, Version |-> version,
     URL |-> EmptyString]

\* The record of the specification's round-trip example
RelGoRoot ==
    [ReleaseTitle |-> <<"v", "1", ".", "2", ".", "0">>,
     DocVersion |-> V3(1, 0, 0),
     DocLocation |-> <<"spec.yaml">>,
     SpeakeasyVersion |-> <<"1", ".", "2", "0", ".", "0">>,
     Languages |-> [l \in {"go"} |->
                       Lang(<<"org", "/", "repo">>, <<".">>, V3(1, 2, 0))]]

\* A Go module in a subdirectory, named as the parser names it, and a PyPI
\* package
RelGoSubPython ==
    [ReleaseTitle |-> <<"2023-02-22">>,
     DocVersion |-> V3(1, 1, 0),
     DocLocation |-> <<"https://", "x", "/", "openapi.yaml">>,
     SpeakeasyVersion |-> V3(1, 3, 0),
     Languages |-> [l \in {"go", "python"} |->
                       IF l = "go"
                       THEN Lang(<<"github.com", "/", "org", "/", "repo", "/",
                                   "sdk">>, <<".", "/", "sdk">>, V3(1, 3, 0))
                       ELSE Lang(<<"speakeasy-sdk">>, <<"py">>, V3(0, 4, 1))]]

RelNpmPhp ==
    [ReleaseTitle |-> <<"Release", SP, "2">>,
     DocVersion |-> <<"v", "2">>,
     DocLocation |-> <<"my", SP, "spec.yaml">>,
     SpeakeasyVersion |-> V3(2, 0, 0),
     Languages |-> [l \in {"typescript", "php"} |->
                       IF l = "typescript"
                       THEN Lang(<<"@", "org", "/", "pkg">>, <<"ts">>,
                                 <<"0", ".", "1", "1", ".", "0">>)
                       ELSE Lang(<<"org", "/", "pkg">>, <<"php">>,
                                 V3(2, 0, 0))]]

RelNoLanguages ==
    [ReleaseTitle |-> <<"empty">>,
     DocVersion |-> EmptyString,
     DocLocation |-> EmptyString,
     SpeakeasyVersion |-> EmptyString,
     Languages |-> [l \in {} |-> Lang(<<>>, <<>>, <<>>)]]

\* A language String has no case for, and a version that is not d.d.d
RelJavaShortVersion ==
    [ReleaseTitle |-> <<"java">>,
     DocVersion |-> V3(1, 0, 0),
     DocLocation |-> <<"spec.yaml">>,
     SpeakeasyVersion |-> V3(1, 2, 3),
     Languages |-> [l \in {"java", "python"} |->
                       IF l = "java"
                       THEN Lang(<<"org.pkg">>, <<"java">>, V3(3, 0, 0))
                       ELSE Lang(<<"pkg">>, <<"py">>, <<"1", ".", "0">>)]]

\* A title with a blank line in it
RelBlankLineTitle ==
    [RelGoRoot EXCEPT !.ReleaseTitle = <<"notes", NL, NL, "more">>]

\* A doc version with a space in it
RelSpaceDocVersion ==
    [RelGoRoot EXCEPT !.DocVersion = <<"1", ".", "0", SP, "beta">>,
                      !.ReleaseTitle = <<"beta">>]

\* A title that reads like an NPM release line
RelReleaseLineTitle ==
    [RelNpmPhp EXCEPT
        !.ReleaseTitle =
            <<"-", SP, "[", "NPM", SP, "v">> \o V3(9, 9, 9) \o <<"]", SP,
              "https://", "www.npmjs.com", "/", "package", "/", "old",
              "/", "v", "/">> \o V3(9, 9, 9) \o <<SP, "-", SP, "gone">>]

Records ==
    {RelGoRoot, RelGoSubPython, RelNpmPhp, RelNoLanguages,
     RelJavaShortVersion, RelBlankLineTitle, RelSpaceDocVersion,
     RelReleaseLineTitle}

\* The records whose write may fail part way
TornRecords == {RelGoRoot}

RepoPaths == {<<"org", "/", "repo">>, <<"acme", "/", "sdks">>}

File(data) == [exists |-> TRUE, data |-> data]
NoFile == [exists |-> FALSE, data |-> EmptyString]

\* RELEASES.md as a run may find it: missing, empty, or some text without a
\* release block
FoundFiles == {NoFile, File(EmptyString), File(<<"#", SP, "Releases", NL>>)}

\* The orders in which range may visit the keys of a map
Orders(m) ==
    {o \in [1..Cardinality(DOMAIN m) -> DOMAIN m] :
        \A i, j \in DOMAIN o : i # j => o[i] # o[j]}

NotRead == [called |-> FALSE]
ErrRead == "error reading releases file"

-----------------------------------------------------------------------------
(* The ledger as a state machine *)

InitLedger ==
    /\ githubRepository \in RepoPaths
    /\ found \in FoundFiles
    /\ releasesFile = found
    /\ written = <<>>
    /\ failed = FALSE
    /\ lastInfo = NotRead
    /\ mgmtConfig = Mgmt(EmptyString, EmptyString, EmptyString)
    /\ sdkVersion = EmptyString
    /\ call = NoCall
    /\ runs = 0
    /\ pc = "idle"
    /\ inputs = <<>>
    /\ genConfigs = <<>>
    /\ configFile = <<>>
    /\ atStart = <<>>
    /\ iter = <<>>
    /\ langGenerated = {}
    /\ release = <<>>
    /\ ret = "idle"

\* Variant: the file is opened without os.O_APPEND and written from its start
UpdateReleasesFileTruncating ==
    /\ ~failed
    /\ Len(written) < MaxAppends
    /\ \E r \in Records : \E order \in Orders(r.Languages) :
          /\ releasesFile' = File(String(r, order, githubRepository))
          /\ written' = Append(written, r)
    /\ lastInfo' = NotRead
    /\ UNCHANGED <<githubRepository, found, failed>>
    /\ UNCHANGED <<decideVars, runVars>>

\* UpdateReleasesFile(releaseInfo): the file is opened for append, created if
\* missing, and releaseInfo.String() is written to it.
UpdateReleasesFile ==
    /\ ~failed
    /\ Len(written) < MaxAppends
    /\ \E r \in Records : \E order \in Orders(r.Languages) :
          /\ releasesFile' =
                File(releasesFile.data \o String(r, order, githubRepository))
          /\ written' = Append(written, r)
    /\ lastInfo' = NotRead
    /\ UNCHANGED <<githubRepository, found, failed>>
    /\ UNCHANGED <<decideVars, runVars>>

\* UpdateReleasesFile returning an error: the file cannot be opened (nothing
\* changes), or WriteString fails after writing only the first n tokens.
UpdateReleasesFileError ==
    /\ ~failed
    /\ Len(written) <= MaxTornAfter
    /\ \/ UNCHANGED releasesFile
       \/ \E r \in TornRecords : \E order \in Orders(r.Languages) :
             \E n \in 0..(Len(String(r, order, githubRepository)) - 1) :
                releasesFile' =
                    File(releasesFile.data
                         \o SubSeq(String(r, order, githubRepository), 1, n))
    /\ failed' = TRUE
    /\ lastInfo' = NotRead
    /\ UNCHANGED <<githubRepository, found, written>>
    /\ UNCHANGED <<decideVars, runVars>>

\* GetLastReleaseInfo(): read the file and parse its last release.
GetLastReleaseInfo ==
    /\ ~lastInfo.called
    /\ lastInfo' =
          IF ~releasesFile.exists
          THEN [called |-> TRUE, info |-> NilInfo, err |-> ErrRead]
          ELSE LET parsed == ParseReleases(releasesFile.data)
               IN  [called |-> TRUE, info |-> parsed.info, err |-> parsed.err]
    /\ UNCHANGED <<githubRepository, releasesFile, found, written, failed>>
    /\ UNCHANGED <<decideVars, runVars>>

NextLedger ==
    UpdateReleasesFile \/ UpdateReleasesFileError \/ GetLastReleaseInfo

-----------------------------------------------------------------------------
(* The reconciliation as a state machine: a call of checkForChanges on the  *)
(* persisted state, and the caller persisting what it returned.             *)

InitDecide ==
    /\ mgmtConfig \in {Mgmt(t, d, s) : t \in SpeakeasyVersions,
                                        d \in DocVersions, s \in DocChecksums}
    /\ sdkVersion \in SdkVersions
    /\ call = NoCall
    /\ runs = 0
    /\ githubRepository = EmptyString
    /\ releasesFile = NoFile
    /\ found = NoFile
    /\ written = <<>>
    /\ failed = FALSE
    /\ lastInfo = NotRead
    /\ pc = "idle"
    /\ inputs = <<>>
    /\ genConfigs = <<>>
    /\ configFile = <<>>
    /\ atStart = <<>>
    /\ iter = <<>>
    /\ langGenerated = {}
    /\ release = <<>>
    /\ ret = "idle"

\* newVersion, err := checkForChanges(speakeasyVersion, docVersion,
\*                                    docChecksum, sdkVersion, management)
CallCheckForChanges ==
    /\ ~call.called
    /\ runs < MaxRuns
    /\ \E sv \in SpeakeasyVersions, dv \in DocVersions, dc \in DocChecksums :
          call' = [called |-> TRUE,
                   speakeasyVersion |-> sv, docVersion |-> dv,
                   docChecksum |-> dc,
                   ret |-> checkForChanges(sv, dv, dc, sdkVersion, mgmtConfig)]
    /\ UNCHANGED <<mgmtConfig, sdkVersion, runs>>
    /\ UNCHANGED <<ledgerVars, runVars>>

\* The caller's successful cycle: the new version and the current metadata
\* become the persisted ones.
Persist ==
    /\ call.called
    /\ call.ret.err = nil
    /\ call.ret.newVersion # EmptyString
    /\ sdkVersion' = call.ret.newVersion
    /\ mgmtConfig' = Mgmt(call.speakeasyVersion, call.docVersion,
                          call.docChecksum)
    /\ call' = NoCall
    /\ runs' = runs + 1
    /\ UNCHANGED <<ledgerVars, runVars>>

\* The caller drops the result: no change, an error, or no diff generated.
Discard ==
    /\ call.called
    /\ call' = NoCall
    /\ UNCHANGED <<mgmtConfig, sdkVersion, runs>>
    /\ UNCHANGED <<ledgerVars, runVars>>

NextDecide == CallCheckForChanges \/ Persist \/ Discard

SpecDecide == InitDecide /\ [][NextDecide]_vars

SpecLedger == InitLedger /\ [][NextLedger]_vars

-----------------------------------------------------------------------------
(* runAction, one step per collaborator call *)

Running == "running"

ErrSetup == "error before the first language"
ErrWriteConfig == "error writing config"
ErrGenerate == "error generating sdk"
ErrDirty == "error checking the output directory"
ErrParseVersion == "error parsing version"
ErrFinish == "error after the last language"

\* cfg.Config of one language: the language's own section, if there is one,
\* with its "version", and the "management" section
Config(hasLang, version, management) ==
    [hasLang |-> hasLang, version |-> version, management |-> management]

RunLanguages == {{"go", "python"}, {"python", "typescript"}}

RunConfigs ==
    {Config(TRUE, v, m) :
        v \in {V3(1, 2, 0), <<"x">>},
        m \in {Mgmt(EmptyString, EmptyString, EmptyString),
               Mgmt(V3(1, 2, 3), V3(1, 0, 0), <<"a">>)}}
    \cup {Config(FALSE, EmptyString,
                 Mgmt(V3(1, 2, 3), V3(1, 0, 0), <<"a">>))}

RunInputs ==
    {[speakeasyVersion |-> t, docVersion |-> V3(1, 0, 0), docChecksum |-> c] :
        t \in {V3(1, 2, 3), V3(1, 3, 0)}, c \in {<<"a">>, <<"b">>}}

NoIter == [todo |-> {}, lang |-> "", sdkVersion |-> EmptyString,
           newVersion |-> EmptyString]

NoRelease == [releaseVersion |-> EmptyString, usingGoVersion |-> FALSE,
              regenerated |-> FALSE]

InitRun ==
    /\ pc = "setup"
    /\ inputs \in RunInputs
    /\ \E langs \in RunLanguages : configFile \in [langs -> RunConfigs]
    /\ genConfigs = configFile
    /\ atStart = configFile
    /\ iter = NoIter
    /\ langGenerated = {}
    /\ release = NoRelease
    /\ ret = Running
    /\ mgmtConfig = Mgmt(EmptyString, EmptyString, EmptyString)
    /\ sdkVersion = EmptyString
    /\ call = NoCall
    /\ runs = 0
    /\ githubRepository = EmptyString
    /\ releasesFile = NoFile
    /\ found = NoFile
    /\ written = <<>>
    /\ failed = FALSE
    /\ lastInfo = NotRead

\* return err
ReturnError(err) ==
    /\ pc' = "done"
    /\ ret' = err

\* Everything up to the first loop succeeds.
Setup ==
    /\ pc = "setup"
    /\ pc' = "loop1"
    /\ iter' = [NoIter EXCEPT !.todo = DOMAIN genConfigs]
    /\ UNCHANGED <<inputs, genConfigs, configFile, atStart, langGenerated,
                   release, ret>>
    /\ UNCHANGED <<decideVars, ledgerVars>>

\* The access token is missing, or downloadSpeakeasy, getAndValidateLanguages,
\* cloneRepo, getSpeakeasyVersion or getOpenAPIFileInfo returns an error.
SetupError ==
    /\ pc = "setup"
    /\ ReturnError(ErrSetup)
    /\ UNCHANGED <<inputs, genConfigs, configFile, atStart, iter,
                   langGenerated, release>>
    /\ UNCHANGED <<decideVars, ledgerVars>>

\* langCfg of the first loop: the language's section, made with version
\* "0.0.0" when the configuration has none
LangCfg(cfg) ==
    IF cfg.hasLang THEN cfg
    ELSE [cfg EXCEPT !.hasLang = TRUE, !.version = V3(0, 0, 0)]

\* checkForChanges as the first loop calls it for lang
Check(lang) ==
    checkForChanges(inputs.speakeasyVersion, inputs.docVersion,
                    inputs.docChecksum, LangCfg(genConfigs[lang]).version,
                    genConfigs[lang].management)

\* An iteration of the first loop in which checkForChanges returns an error
CheckForChangesError ==
    /\ pc = "loop1"
    /\ \E lang \in iter.todo :
          /\ Check(lang).err # nil
          /\ genConfigs' = [genConfigs EXCEPT ![lang] = LangCfg(@)]
          /\ ReturnError(Check(lang).err)
    /\ UNCHANGED <<inputs, configFile, atStart, iter, langGenerated, release>>
    /\ UNCHANGED <<decideVars, ledgerVars>>

\* An iteration of the first loop in which newVersion is ""
NoChangesDetected ==
    /\ pc = "loop1"
    /\ \E lang \in iter.todo :
          /\ Check(lang).err = nil
          /\ Check(lang).newVersion = EmptyString
          /\ genConfigs' = [genConfigs EXCEPT ![lang] = LangCfg(@)]
          /\ iter' = [iter EXCEPT !.todo = @ \ {lang}]
    /\ UNCHANGED <<pc, inputs, configFile, atStart, langGenerated, release,
                   ret>>
    /\ UNCHANGED <<decideVars, ledgerVars>>

\* An iteration of the first loop up to cfg.Config[lang]["version"] = newVersion
NewVersionDetected ==
    /\ pc = "loop1"
    /\ \E lang \in iter.todo :
          /\ Check(lang).err = nil
          /\ Check(lang).newVersion # EmptyString
          /\ genConfigs' =
                [genConfigs EXCEPT
                    ![lang] = [LangCfg(@) EXCEPT
                                  !.version = Check(lang).newVersion]]
          /\ iter' = [todo |-> iter.todo \ {lang}, lang |-> lang,
                      sdkVersion |-> LangCfg(genConfigs[lang]).version,
                      newVersion |-> Check(lang).newVersion]
    /\ pc' = "write"
    /\ UNCHANGED <<inputs, configFile, atStart, langGenerated, release, ret>>
    /\ UNCHANGED <<decideVars, ledgerVars>>

\* writeConfigFile(cfg) of the language under way
writeConfigFile == configFile' = [configFile EXCEPT ![iter.lang] = genConfigs[iter.lang]]

\* writeConfigFile(cfg) with the new version succeeds.
WriteNewVersion ==
    /\ pc = "write"
    /\ writeConfigFile
    /\ pc' = "generate"
    /\ UNCHANGED <<inputs, genConfigs, atStart, iter, langGenerated, release,
                   ret>>
    /\ UNCHANGED <<decideVars, ledgerVars>>

\* writeConfigFile(cfg) with the new version returns an error.
WriteNewVersionError ==
    /\ pc = "write"
    /\ ReturnError(ErrWriteConfig)
    /\ UNCHANGED <<inputs, genConfigs, configFile, atStart, iter,
                   langGenerated, release>>
    /\ UNCHANGED <<decideVars, ledgerVars>>

\* speakeasy generate sdk succeeds.
Generate ==
    /\ pc = "generate"
    /\ pc' = "dirty"
    /\ UNCHANGED <<inputs, genConfigs, configFile, atStart, iter,
                   langGenerated, release, ret>>
    /\ UNCHANGED <<decideVars, ledgerVars>>

\* speakeasy generate sdk fails.
GenerateError ==
    /\ pc = "generate"
    /\ ReturnError(ErrGenerate)
    /\ UNCHANGED <<inputs, genConfigs, configFile, atStart, iter,
                   langGenerated, release>>
    /\ UNCHANGED <<decideVars, ledgerVars>>

\* checkDirDirty returns an error.
CheckDirDirtyError ==
    /\ pc = "dirty"
    /\ ReturnError(ErrDirty)
    /\ UNCHANGED <<inputs, genConfigs, configFile, atStart, iter,
                   langGenerated, release>>
    /\ UNCHANGED <<decideVars, ledgerVars>>

\* The output directory is dirty.
Dirty ==
    /\ pc = "dirty"
    /\ langGenerated' = langGenerated \cup {iter.lang}
    /\ pc' = "loop1"
    /\ UNCHANGED <<inputs, genConfigs, configFile, atStart, iter, release,
                   ret>>
    /\ UNCHANGED <<decideVars, ledgerVars>>

\* The output directory is clean: the version is set back and written.
NotDirty ==
    /\ pc = "dirty"
    /\ genConfigs' = [genConfigs EXCEPT ![iter.lang].version = iter.sdkVersion]
    /\ configFile' = [configFile EXCEPT ![iter.lang] = genConfigs'[iter.lang]]
    /\ pc' = "loop1"
    /\ UNCHANGED <<inputs, atStart, iter, langGenerated, release, ret>>
    /\ UNCHANGED <<decideVars, ledgerVars>>

\* The output directory is clean and writing the version back fails.
NotDirtyWriteError ==
    /\ pc = "dirty"
    /\ genConfigs' = [genConfigs EXCEPT ![iter.lang].version = iter.sdkVersion]
    /\ ReturnError(ErrWriteConfig)
    /\ UNCHANGED <<inputs, configFile, atStart, iter, langGenerated, release>>
    /\ UNCHANGED <<decideVars, ledgerVars>>

\* Between the loops: releaseVersion and usingGoVersion
StartSecondLoop ==
    /\ pc = "loop1"
    /\ iter.todo = {}
    /\ pc' = "loop2"
    /\ iter' = [NoIter EXCEPT !.todo = DOMAIN genConfigs]
    /\ release' =
          IF "go" \in DOMAIN genConfigs
          THEN [releaseVersion |-> genConfigs["go"].version,
                usingGoVersion |-> TRUE, regenerated |-> FALSE]
          ELSE NoRelease
    /\ UNCHANGED <<inputs, genConfigs, configFile, atStart, langGenerated, ret>>
    /\ UNCHANGED <<decideVars, ledgerVars>>

\* v2.GreaterThan(v) on versions without prerelease
GreaterThan(v2, v) ==
    \E i \in 1..3 :
       /\ v2.segments[i] > v.segments[i]
       /\ \A j \in 1..(i - 1) : v2.segments[j] = v.segments[j]

\* The management section with the run's inputs
CurrentManagement ==
    Mgmt(inputs.speakeasyVersion, inputs.docVersion, inputs.docChecksum)

\* releaseVersion after an iteration of the second loop for a generated lang
ReleaseVersion(lang) ==
    IF release.usingGoVersion THEN release.releaseVersion
    ELSE IF release.releaseVersion = EmptyString
    THEN genConfigs[lang].version
    ELSE IF GreaterThan(NewVersion(genConfigs[lang].version),
                        NewVersion(release.releaseVersion))
    THEN genConfigs[lang].version
    ELSE release.releaseVersion

\* Whether the second loop's version.NewVersion calls fail for lang
ReleaseVersionError(lang) ==
    /\ ~release.usingGoVersion
    /\ release.releaseVersion # EmptyString
    /\ \/ NewVersion(release.releaseVersion).err
       \/ NewVersion(genConfigs[lang].version).err

\* An iteration of the second loop for a language that was not generated
SkipNotGenerated ==
    /\ pc = "loop2"
    /\ \E lang \in iter.todo \ langGenerated :
          iter' = [iter EXCEPT !.todo = @ \ {lang}]
    /\ UNCHANGED <<pc, inputs, genConfigs, configFile, atStart, langGenerated,
                   release, ret>>
    /\ UNCHANGED <<decideVars, ledgerVars>>

\* An iteration of the second loop for a generated language: the management
\* section takes the run's inputs and the configuration is written.
WriteManagement ==
    /\ pc = "loop2"
    /\ \E lang \in iter.todo \cap langGenerated :
          /\ genConfigs' = [genConfigs EXCEPT
                               ![lang].management = CurrentManagement]
          /\ configFile' = [configFile EXCEPT ![lang] = genConfigs'[lang]]
          /\ iter' = [iter EXCEPT !.todo = @ \ {lang}]
          /\ IF ReleaseVersionError(lang)
             THEN /\ ReturnError(ErrParseVersion)
                  /\ UNCHANGED release
             ELSE /\ release' = [release EXCEPT
                                    !.releaseVersion = ReleaseVersion(lang),
                                    !.regenerated = TRUE]
                  /\ UNCHANGED <<pc, ret>>
    /\ UNCHANGED <<inputs, atStart, langGenerated>>
    /\ UNCHANGED <<decideVars, ledgerVars>>

\* An iteration of the second loop in which os.WriteFile returns an error
WriteManagementError ==
    /\ pc = "loop2"
    /\ \E lang \in iter.todo \cap langGenerated :
          genConfigs' = [genConfigs EXCEPT
                            ![lang].management = CurrentManagement]
    /\ ReturnError(ErrWriteConfig)
    /\ UNCHANGED <<inputs, configFile, atStart, iter, langGenerated, release>>
    /\ UNCHANGED <<decideVars, ledgerVars>>

\* commitAndPush, createRelease and setOutputs succeed.
Finish ==
    /\ pc = "loop2"
    /\ iter.todo = {}
    /\ pc' = "done"
    /\ ret' = nil
    /\ UNCHANGED <<inputs, genConfigs, configFile, atStart, iter,
                   langGenerated, release>>
    /\ UNCHANGED <<decideVars, ledgerVars>>

\* commitAndPush, createRelease or setOutputs returns an error.
FinishError ==
    /\ pc = "loop2"
    /\ iter.todo = {}
    /\ ReturnError(ErrFinish)
    /\ UNCHANGED <<inputs, genConfigs, configFile, atStart, iter,
                   langGenerated, release>>
    /\ UNCHANGED <<decideVars, ledgerVars>>

NextRun ==
    \/ Setup \/ SetupError
    \/ CheckForChangesError \/ NoChangesDetected \/ NewVersionDetected
    \/ WriteNewVersion \/ WriteNewVersionError
    \/ Generate \/ GenerateError
    \/ CheckDirDirtyError \/ Dirty \/ NotDirty \/ NotDirtyWriteError
    \/ StartSecondLoop
    \/ SkipNotGenerated \/ WriteManagement \/ WriteManagementError
    \/ Finish \/ FinishError

SpecRun == InitRun /\ [][NextRun]_vars

-----------------------------------------------------------------------------
(* Properties of checkForChanges, stated on the last call.  While a call is *)
(* pending, mgmtConfig and sdkVersion are the previous values it was given. *)

Called == call.called

PrevTool == mgmtConfig["speakeasy-version"]
PrevDoc == mgmtConfig["openapi-version"]
PrevSum == mgmtConfig["openapi-checksum"]

Identical ==
    /\ call.speakeasyVersion = PrevTool
    /\ call.docVersion = PrevDoc
    /\ call.docChecksum = PrevSum

Unparseable(s) == NewVersion(s).err

\* The recommendation of a version signal in the specification's words:
\* Minor on an empty previous value, else the first segment that increased.
Recommended(current, previous) ==
    IF previous = EmptyString THEN "Minor"
    ELSE IF Unparseable(current) \/ Unparseable(previous) THEN "None"
    ELSE LET c == NewVersion(current).segments
             p == NewVersion(previous).segments
         IN  CASE c[1] > p[1] -> "Major"
               [] c[1] <= p[1] /\ c[2] > p[2] -> "Minor"
               [] c[1] <= p[1] /\ c[2] <= p[2] /\ c[3] > p[3] -> "Patch"
               [] OTHER -> "None"

RecommendedBySum ==
    IF PrevSum = EmptyString THEN "Minor"
    ELSE IF call.docChecksum # PrevSum THEN "Patch" ELSE "None"

Recommendations ==
    {Recommended(call.speakeasyVersion, PrevTool),
     Recommended(call.docVersion, PrevDoc), RecommendedBySum}

\* (major, minor, patch) of a version string; zeros for the empty string.
Triple(s) ==
    IF s = EmptyString \/ Unparseable(s) THEN <<0, 0, 0>>
    ELSE SubSeq(NewVersion(s).segments, 1, 3)

TripleLeq(a, b) ==
    \/ a[1] < b[1]
    \/ a[1] = b[1] /\ a[2] < b[2]
    \/ a[1] = b[1] /\ a[2] = b[2] /\ a[3] <= b[3]

\* C1: with the current tool version, doc version and checksum equal to the
\* previous management values, checkForChanges returns "" and a nil error,
\* whatever the previous SDK version is.
C1_IdenticalMetadataNoChange ==
    (Called /\ Identical) => call.ret = Return(EmptyString, nil)

C1_Witness ==
    /\ Called /\ Identical
    /\ PrevTool # EmptyString
    /\ sdkVersion = <<"x">>
    /\ call.ret = Return(EmptyString, nil)

C3_FirstRunAlways010 ==
    (Called /\ PrevTool = EmptyString /\ PrevDoc = EmptyString
            /\ PrevSum = EmptyString /\ sdkVersion = EmptyString)
        => call.ret = Return(<<"0", ".", "1", ".", "0">>, nil)

\* C3 amended: with the previous management metadata and the previous SDK
\* version all empty, the result is "0.1.0" with a nil error for every current
\* tool version, doc version and checksum of which at least one is not empty;
\* with all three empty the metadata is unchanged and the result is "".
C3_FirstRun010UnlessAllEmpty ==
    (Called /\ PrevTool = EmptyString /\ PrevDoc = EmptyString
            /\ PrevSum = EmptyString /\ sdkVersion = EmptyString)
        => call.ret = IF Identical THEN Return(EmptyString, nil)
                      ELSE Return(<<"0", ".", "1", ".", "0">>, nil)

C3_Witness ==
    /\ Called /\ PrevTool = EmptyString /\ PrevDoc = EmptyString
    /\ PrevSum = EmptyString /\ sdkVersion = EmptyString
    /\ call.speakeasyVersion = <<"x">>
    /\ call.docVersion = <<"2", ".", "0", ".", "0">>
    /\ call.ret = Return(<<"0", ".", "1", ".", "0">>, nil)

\* C4: on a call that returns a version after some signal recommended a bump,
\* with (M, m, p) the previous SDK version: the result is (M+1, 0, 0) if any
\* signal recommended Major, else (M, m+1, 0) if any recommended Minor, else
\* (M, m, p+1).
C4_Precedence ==
    (Called /\ ~Identical /\ call.ret.err = nil
            /\ Recommendations # {"None"})
        => LET v == Triple(sdkVersion)
           IN  call.ret.newVersion =
                 IF "Major" \in Recommendations THEN Sprintf3(v[1] + 1, 0, 0)
                 ELSE IF "Minor" \in Recommendations
                 THEN Sprintf3(v[1], v[2] + 1, 0)
                 ELSE Sprintf3(v[1], v[2], v[3] + 1)

\* A Major and a Minor recommendation together, on a previous SDK version with
\* non-zero minor: the minor is zeroed.
C4_Witness ==
    /\ Called /\ call.ret.err = nil
    /\ Recommended(call.speakeasyVersion, PrevTool) = "Major"
    /\ Recommended(call.docVersion, PrevDoc) = "Minor"
    /\ RecommendedBySum = "Patch"
    /\ sdkVersion = <<"1", ".", "2", ".", "0">>
    /\ call.ret.newVersion = <<"2", ".", "0", ".", "0">>

\* C5 as claimed: when the metadata differs, an unparseable current tool
\* version, non-empty previous SDK version, non-empty previous tool version or
\* non-empty previous doc version gives an error and no version, whatever the
\* other inputs are; and nothing else gives an error.
C5_AnyUnparseableIsFatal ==
    (Called /\ ~Identical)
        => LET fatal ==
                 \/ Unparseable(call.speakeasyVersion)
                 \/ sdkVersion # EmptyString /\ Unparseable(sdkVersion)
                 \/ PrevTool # EmptyString /\ Unparseable(PrevTool)
                 \/ PrevDoc # EmptyString /\ Unparseable(PrevDoc)
           IN  /\ fatal => (call.ret.err # nil
                            /\ call.ret.newVersion = EmptyString)
               /\ call.ret.err # nil => fatal

\* C5 amended: when the metadata differs, checkForChanges returns an error and
\* no version exactly when a version it parses is unparseable: the previous
\* tool version is non-empty and it or the current tool version is
\* unparseable; or the previous doc version is non-empty and unparseable while
\* the current doc version parses; or the previous SDK version is non-empty
\* and unparseable.  A current doc version that fails to parse never causes an
\* error.
C5_ParsedUnparseableIsFatal ==
    (Called /\ ~Identical)
        => LET fatal ==
                 \/ /\ PrevTool # EmptyString
                    /\ Unparseable(PrevTool) \/ Unparseable(call.speakeasyVersion)
                 \/ /\ PrevDoc # EmptyString
                    /\ ~Unparseable(call.docVersion)
                    /\ Unparseable(PrevDoc)
                 \/ sdkVersion # EmptyString /\ Unparseable(sdkVersion)
           IN  /\ fatal <=> call.ret.err # nil
               /\ call.ret.err # nil => call.ret.newVersion = EmptyString

\* Each of the four parses fails in a reachable call; shown for the previous
\* SDK version, with every other version parseable.
C5_Witness ==
    /\ Called /\ ~Identical
    /\ ~Unparseable(PrevTool) /\ ~Unparseable(call.speakeasyVersion)
    /\ ~Unparseable(PrevDoc) /\ Unparseable(call.docVersion)
    /\ sdkVersion = <<"x">>
    /\ call.ret = Return(EmptyString, ErrSdk)

\* C9: a returned version is at least the previous SDK version in
\* (major, minor, patch) order, and the persisted SDK version never decreases
\* from one step to the next.
C9_SdkVersionMonotone ==
    /\ []((Called /\ call.ret.err = nil /\ call.ret.newVersion # EmptyString)
            => TripleLeq(Triple(sdkVersion), Triple(call.ret.newVersion)))
    /\ [][TripleLeq(Triple(sdkVersion), Triple(sdkVersion'))]_vars

\* Two cycles persisted, the second a patch bump of the first's minor bump.
C9_Witness ==
    /\ runs = 2
    /\ sdkVersion = <<"1", ".", "3", ".", "1">>

-----------------------------------------------------------------------------
(* Properties of the ledger, stated on what GetLastReleaseInfo returned.    *)

\* The most recently appended record
LastWritten == written[Len(written)]

Appended == lastInfo.called /\ ~failed /\ written # <<>>

NoNewline(s) == \A i \in 1..Len(s) : s[i] # NL
NoWhitespace(s) == \A i \in 1..Len(s) : s[i] \notin {SP, NL}

ContainsRun(s, run) == \E i \in 1..Len(s) : LitsAt(s, i, run)

\* The start of every release line: "- ["
NoReleaseLinePrefix(s) == ~ContainsRun(s, <<"-", SP, "[">>)

\* d.d.d
IsSemver(v) ==
    LET parts == SplitOn(v, ".")
    IN  /\ Len(parts) = 3
        /\ \A i \in 1..3 : parts[i] # <<>> /\ AllIn(parts[i], Digit)

\* A record whose text fields hold no newline and no "- [", and whose
\* language entries hold no space.
PlainRecord(r) ==
    /\ \A s \in {r.ReleaseTitle, r.DocVersion, r.DocLocation,
                 r.SpeakeasyVersion} :
          NoNewline(s) /\ NoReleaseLinePrefix(s)
    /\ \A l \in DOMAIN r.Languages :
          \A s \in {r.Languages[l].PackageName, r.Languages[l].Path,
                    r.Languages[l].Version} : NoWhitespace(s)

\* The package name ParseReleases gives a Go entry
GoPackageName(path) ==
    <<"github.com", "/">> \o githubRepository
    \o (IF path = <<".">> THEN <<>> ELSE <<"/">> \o TrimDotSlash(path))

\* What follows the last blank line of the text
FinalBlock(data) ==
    LET seps == {j \in 1..(Len(data) - 1) : data[j] = NL /\ data[j + 1] = NL}
    IN  IF seps = {} THEN data
        ELSE SubSeq(data, SetMax(seps) + 2, Len(data))

\* "## <title>\n### Changes\nBased on:\n- OpenAPI Doc <v> <loc>\n- Speakeasy
\* CLI <v> " stands somewhere in the block.
HasPreamble(b) ==
    \E i \in 1..Len(b) :
       /\ LitsAt(b, i, <<"##", SP>>)
       /\ \E j \in (i + 2)..Len(b) :
             /\ LitsAt(b, j, <<NL, "###", SP, "Changes", NL, "Based", SP,
                               "on:", NL, "-", SP, "OpenAPI", SP, "Doc", SP>>)
             /\ \E k \in (j + 15)..Len(b) :
                   /\ b[k] = SP
                   /\ \E l \in (k + 1)..Len(b) :
                         /\ LitsAt(b, l, <<NL, "-", SP, "Speakeasy", SP,
                                           "CLI", SP>>)
                         /\ \E m \in (l + 7)..Len(b) : b[m] = SP

SameTriple(a, b) ==
    /\ a.PackageName = b.PackageName
    /\ a.Path = b.Path
    /\ a.Version = b.Version

C7_MalformedLastBlockRejected ==
    (lastInfo.called /\ releasesFile.exists
        /\ ~HasPreamble(FinalBlock(releasesFile.data)))
        => lastInfo.err = ErrParse /\ lastInfo.info.isNil

\* A well-formed block followed by a final block without the "## " title line
C7_Witness ==
    /\ lastInfo.called /\ ~failed
    /\ written = <<RelGoRoot, RelBlankLineTitle>>
    /\ HasPreamble(releasesFile.data)
    /\ ~HasPreamble(FinalBlock(releasesFile.data))
    /\ lastInfo.err = ErrParse /\ lastInfo.info.isNil

\* The header fields and the language entries read back are those of r.
ReadsBack(r) ==
    /\ lastInfo.err = nil
    /\ lastInfo.info.ReleaseTitle = r.ReleaseTitle
    /\ lastInfo.info.DocVersion = r.DocVersion
    /\ lastInfo.info.DocLocation = r.DocLocation
    /\ lastInfo.info.SpeakeasyVersion = r.SpeakeasyVersion
    /\ \A l \in DOMAIN lastInfo.info.Languages :
          /\ l \in DOMAIN r.Languages
          /\ lastInfo.info.Languages[l].Version = r.Languages[l].Version
          /\ lastInfo.info.Languages[l].Path = r.Languages[l].Path

IsPrefix(a, b) == Len(a) <= Len(b) /\ SubSeq(b, 1, Len(a)) = a

StartedEmpty == found.data = EmptyString

-----------------------------------------------------------------------------
(* Properties of runAction *)

\* A language for which checkForChanges returned a new version, the generator
\* succeeded and the output directory was dirty
Succeeded(l) == l \in langGenerated

\* C10: the written management section of a language differs from the one the
\* run found only if the language's cycle succeeded, and then it holds the
\* run's inputs; and once runAction has returned, every language whose cycle
\* did not succeed has the management section and the version the run found.
C10_PersistedOnlyBySuccessfulCycle ==
    \A l \in DOMAIN configFile :
       /\ configFile[l].management # atStart[l].management
             => Succeeded(l) /\ configFile[l].management = CurrentManagement
       /\ (pc = "done" /\ ~Succeeded(l))
             => /\ configFile[l].management = atStart[l].management
                /\ configFile[l].version = atStart[l].version

=============================================================================
